---- MODULE Spec2Model ----
(***************************************************************************)
(* A model of src/upwork_fetch.py: one run of main().  The run validates   *)
(* the environment, calls fetch_upwork (a bounded retry loop around one    *)
(* HTTP POST), branches on the outcome, composes one notification e-mail,  *)
(* hands it to send_email and exits.  The network and the mail server are  *)
(* the environment: every POST nondeterministically yields a response or   *)
(* raises requests.RequestException, every SMTP session completes or       *)
(* raises.                                                                 *)
(***************************************************************************)
EXTENDS Integers, Sequences, FiniteSets, TLC

\* ------------------------------------------------------------ constants
MAX_RETRIES == 3
RETRY_BACKOFF == 2

\* ------------------------------------------------------------ bounds
\* Longest results list a response body carries.
MaxResults == 3

\* ------------------------------------------------------------ values
\* os.getenv(name): None when the variable is unset, else its string.
None == <<>>
Some(s) == <<s>>
EnvValues == {None, Some(""), Some("v")}

RequiredKeys ==
    {"UPWORK_TOKEN", "UPWORK_TENANTID", "RECIPIENT_EMAIL", "SENDER_EMAIL",
     "SMTP_HOST", "SMTP_USER", "SMTP_PASS"}

\* LIMIT and SMTP_PORT always hold an integer (they have defaults).
Limits == {2, 10}
Ports == {587, 465}

\* Mutant of Truthy: only an unset variable counts as missing.
TruthyNotNone(v) == v # None

\* Python truthiness of an os.getenv result: None and "" are falsy.
Truthy(v) == v # None /\ v[1] # ""

\* JSON values as resp.json() returns them.  An object is its set of
\* <<key, value>> items; strings and lists are kept by their length.
JNull == [t |-> "null"]
JNum == [t |-> "num"]
JStr(n) == [t |-> "str", len |-> n]
JList(n) == [t |-> "list", len |-> n]
JObj(items) == [t |-> "obj", items |-> items]

\* The values the model puts under the key "results".
ResultsValues ==
    {JNull, JNum, JStr(2), JObj({}), JObj({<<"id", JNum>>})}
        \cup {JList(k) : k \in 0..MaxResults}

\* Objects that may stand under "mostRecentJobsFeed".
FeedObjects ==
    {JObj({}), JObj({<<"paging", JNull>>})}
        \cup {JObj({<<"results", r>>}) : r \in ResultsValues}
        \cup {JObj({<<"results", JList(k)>>, <<"paging", JObj({})>>}) : k \in {1}}
FeedValues == {JNull, JNum, JStr(1), JList(1)} \cup FeedObjects

\* Objects that may stand under "data".
DataObjects ==
    {JObj({}), JObj({<<"viewer", JNull>>})}
        \cup {JObj({<<"mostRecentJobsFeed", f>>}) : f \in FeedValues}
DataValues == {JNull, JNum, JStr(1), JList(0)} \cup DataObjects

\* Top-level documents.
TopObjects ==
    {JObj({}), JObj({<<"errors", JList(1)>>})}
        \cup {JObj({<<"data", d>>}) : d \in DataValues}
        \cup {JObj({<<"data", JNull>>, <<"errors", JList(1)>>})}
JsonDocs == {JNull, JNum, JStr(3), JList(0), JList(2)} \cup TopObjects

\* A response body: text that is no JSON document, or a JSON document.
NotJson == [t |-> "notjson"]
Bodies200 == {NotJson} \cup JsonDocs

\* resp.text of the responses whose body is only quoted.
Texts == {"", "Forbidden"}

\* Status codes the server answers with.
Statuses == {200, 201, 204, 401, 403, 404, 429, 499, 500, 503}

\* datetime.utcnow(): two instants, one with a zero microsecond field.
Instants == {1, 2}

\* ------------------------------------------------------------ state
VARIABLES
    env,        \* the required environment values read at import
    limit,      \* LIMIT
    port,       \* SMTP_PORT
    pc,         \* position of the run
    attempt,    \* loop variable of fetch_upwork
    posts,      \* outcome of each requests.post, in order
    sleeps,     \* argument of each time.sleep, in order
    logs,       \* log records emitted, in order
    fetched,    \* what fetch_upwork produced: a response or an exception
    branch,     \* the notification branch main took
    pending,    \* the message composed and not yet handed to send_email
    sends,      \* every send_email call: the message and whether it raised
    exitCode,   \* process exit status, -1 while running
    unhandled,  \* the exception that ended the run outside every handler
    events      \* the externally visible events, in order

vars == <<env, limit, port, pc, attempt, posts, sleeps, logs, fetched,
          branch, pending, sends, exitCode, unhandled, events>>

NoValue == [kind |-> "none"]

Init ==
    /\ env \in [RequiredKeys -> EnvValues]
    /\ limit \in Limits
    /\ port \in Ports
    /\ pc = "main"
    /\ attempt = 0
    /\ posts = <<>>
    /\ sleeps = <<>>
    /\ logs = <<>>
    /\ fetched = NoValue
    /\ branch = "none"
    /\ pending = NoValue
    /\ sends = <<>>
    /\ exitCode = -1
    /\ unhandled = "none"
    /\ events = <<>>

\* ------------------------------------------------------------ helpers
Log(level, site) == [level |-> level, site |-> site]

\* validate_env: the required names whose value is falsy.
Missing(e) == {k \in RequiredKeys : ~Truthy(e[k])}
validate_env(e) == Missing(e) = {}

\* ------------------------------------------------------------ main, 176-181
Validate ==
    /\ pc = "main"
    /\ IF validate_env(env)
         THEN /\ pc' = "fetch"
              /\ attempt' = 1
              /\ logs' = Append(logs, Log("INFO", "main:181"))
              /\ events' = Append(events, "fetch")
              /\ UNCHANGED exitCode
         ELSE /\ pc' = "exited"
              /\ exitCode' = 2
              /\ logs' = Append(logs, Log("ERROR", "main:178"))
              /\ events' = Append(events, "exit")
              /\ UNCHANGED attempt
    /\ UNCHANGED <<env, limit, port, posts, sleeps, fetched, branch,
                   pending, sends, unhandled>>

\* ------------------------------------------------------------ fetch_upwork
RECURSIVE Pow(_, _)
Pow(b, e) == IF e = 0 THEN 1 ELSE b * Pow(b, e - 1)

\* Mutant of Backoff: the attempt counted from 0 (delays 1, 2, 4).
BackoffZeroBased(n) == Pow(RETRY_BACKOFF, n - 1)

\* Mutant of Backoff: a linear delay, RETRY_BACKOFF * attempt.
BackoffLinear(n) == RETRY_BACKOFF * n

\* time.sleep(RETRY_BACKOFF ** attempt), lines 140 and 145.
Backoff(n) == Pow(RETRY_BACKOFF, n)

\* Mutants of IsRetryable: client errors retried too; 500 itself not retried.
IsRetryableFrom400(status) == status >= 400
IsRetryableAbove500(status) == status > 500

\* resp.status_code >= 500, line 138.
IsRetryable(status) == status >= 500

\* What one requests.post can produce.
Response(status, json, text) ==
    [kind |-> "resp", status |-> status, json |-> json, text |-> text]
RequestException == [kind |-> "exc", type |-> "RequestException"]
PostOutcomes ==
    {RequestException}
        \cup {Response(200, b, "") : b \in Bodies200}
        \cup {Response(s, NotJson, t) : s \in Statuses \ {200}, t \in Texts}

\* Mutant of Attempt: no except clause, a transport failure leaves
\* fetch_upwork at once.
AttemptTransportFatal ==
    /\ pc = "fetch"
    /\ attempt <= MAX_RETRIES
    /\ \E out \in PostOutcomes :
         /\ posts' = Append(posts, out)
         /\ IF out.kind = "exc"
              THEN /\ fetched' = out
                   /\ pc' = "raised"
                   /\ events' = Append(events, "post")
                   /\ UNCHANGED <<logs, sleeps, attempt>>
              ELSE IF IsRetryable(out.status)
              THEN /\ logs' = Append(logs, Log("WARNING", "fetch_upwork:139"))
                   /\ sleeps' = Append(sleeps, Backoff(attempt))
                   /\ events' = events \o <<"post", "sleep">>
                   /\ attempt' = attempt + 1
                   /\ UNCHANGED <<pc, fetched>>
              ELSE /\ fetched' = out
                   /\ pc' = "returned"
                   /\ events' = Append(events, "post")
                   /\ UNCHANGED <<logs, sleeps, attempt>>
    /\ UNCHANGED <<env, limit, port, branch, pending, sends, exitCode,
                   unhandled>>

\* One iteration of the loop of lines 135-145: the POST, then either the
\* return of the response or the log line and the sleep before the next
\* iteration.
Attempt ==
    /\ pc = "fetch"
    /\ attempt <= MAX_RETRIES
    /\ \E out \in PostOutcomes :
         /\ posts' = Append(posts, out)
         /\ IF out.kind = "exc"
              THEN /\ logs' = Append(logs, Log("ERROR", "fetch_upwork:144"))
                   /\ sleeps' = Append(sleeps, Backoff(attempt))
                   /\ events' = events \o <<"post", "sleep">>
                   /\ attempt' = attempt + 1
                   /\ UNCHANGED <<pc, fetched>>
              ELSE IF IsRetryable(out.status)
              THEN /\ logs' = Append(logs, Log("WARNING", "fetch_upwork:139"))
                   /\ sleeps' = Append(sleeps, Backoff(attempt))
                   /\ events' = events \o <<"post", "sleep">>
                   /\ attempt' = attempt + 1
                   /\ UNCHANGED <<pc, fetched>>
              ELSE /\ fetched' = out
                   /\ pc' = "returned"
                   /\ events' = Append(events, "post")
                   /\ UNCHANGED <<logs, sleeps, attempt>>
    /\ UNCHANGED <<env, limit, port, branch, pending, sends, exitCode,
                   unhandled>>

\* Line 146: the loop ran out of attempts.
RuntimeError == [kind |-> "exc", type |-> "RuntimeError"]
MaxRetriesExceeded ==
    /\ pc = "fetch"
    /\ attempt > MAX_RETRIES
    /\ fetched' = RuntimeError
    /\ pc' = "raised"
    /\ UNCHANGED <<env, limit, port, attempt, posts, sleeps, logs, branch,
                   pending, sends, exitCode, unhandled, events>>

\* ------------------------------------------------------------ Python values
\* The result of evaluating an expression: a value, or a raised exception.
Ok(v) == [ok |-> TRUE, v |-> v]
Raise(type) == [ok |-> FALSE, exc |-> type]

HasKey(o, k) == \E p \in o.items : p[1] = k
Lookup(o, k) == (CHOOSE p \in o.items : p[1] = k)[2]

\* x.get(key, default): only a dict has the method.
DictGet(x, key, default) ==
    IF x.t = "obj"
      THEN Ok(IF HasKey(x, key) THEN Lookup(x, key) ELSE default)
      ELSE Raise("AttributeError")

\* len(x): defined on lists, strings and dicts, not on None or a number.
PyLen(x) ==
    CASE x.t \in {"list", "str"} -> Ok(x.len)
      [] x.t = "obj" -> Ok(Cardinality(x.items))
      [] OTHER -> Raise("TypeError")

\* resp.json(), line 200.
ParseJson(body) ==
    IF body = NotJson THEN Raise("JSONDecodeError") ELSE Ok(body)

\* Mutant of ResultCount: the last .get left out, the feed object measured.
ResultCountOfFeed(data) ==
    LET a == DictGet(data, "data", JObj({}))
        b == IF a.ok THEN DictGet(a.v, "mostRecentJobsFeed", JObj({})) ELSE a
    IN  IF b.ok THEN PyLen(b.v) ELSE b

\* len(data.get('data', {}).get('mostRecentJobsFeed', {}).get('results', [])),
\* line 204, evaluated left to right.
ResultCount(data) ==
    LET a == DictGet(data, "data", JObj({}))
        b == IF a.ok THEN DictGet(a.v, "mostRecentJobsFeed", JObj({})) ELSE a
        c == IF b.ok THEN DictGet(b.v, "results", JList(0)) ELSE b
    IN  IF c.ok THEN PyLen(c.v) ELSE c

\* ------------------------------------------------------------ strings
\* Stands for U+2014 (EM DASH), one character as in the source.
EmDash == "-"

\* datetime.utcnow().strftime("%Y%m%dT%H%M%SZ"), line 202.
Strftime(t) == IF t = 1 THEN "20250101T000000Z" ELSE "20251231T235959Z"

\* datetime.utcnow().isoformat(), line 190: no fraction when microsecond = 0.
Isoformat(t) ==
    IF t = 1 THEN "2025-01-01T00:00:00" ELSE "2025-12-31T23:59:59.999999"

\* The four subjects, lines 190, 204, 220, 233.
ExceptionSubject(t) == "[Upwork Fetcher] ERROR at " \o Isoformat(t) \o "Z"
SuccessSubject(n, ts) ==
    "[Upwork] mostRecentJobsFeed " \o EmDash \o " " \o ToString(n)
        \o " results " \o EmDash \o " " \o ts
AuthSubject(status) == "[Upwork Fetcher] AUTH ERROR " \o ToString(status)
OtherSubject(status) == "[Upwork Fetcher] ERROR " \o ToString(status)

\* str(e) of the exception fetch_upwork raises, line 146.
ErrorText(e) == "Max retries exceeded fetching Upwork API"

\* ------------------------------------------------------------ messages
NoAttachment == [kind |-> "none"]

\* The EmailMessage the three error branches build (lines 187-191,
\* 217-221, 230-234): From, To, Subject and a text body.
ErrorMessage(subject, content) ==
    [from |-> env["SENDER_EMAIL"][1], to |-> env["RECIPIENT_EMAIL"][1],
     subject |-> subject, content |-> content, attachment |-> NoAttachment]

\* make_email, lines 148-161.
make_email(subject, body_text, attachment_bytes, attachment_name) ==
    [from |-> env["SENDER_EMAIL"][1], to |-> env["RECIPIENT_EMAIL"][1],
     subject |-> subject, content |-> body_text,
     attachment |-> [kind |-> "application/json",
                     filename |-> attachment_name,
                     payload |-> attachment_bytes]]

\* ------------------------------------------------------------ main, 184-191
OnFetchException ==
    /\ pc = "raised"
    /\ \E t \in Instants :
         pending' = ErrorMessage(ExceptionSubject(t),
                        "Failed to fetch Upwork API: " \o ErrorText(fetched))
    /\ branch' = "exception"
    /\ logs' = Append(logs, Log("ERROR", "main:185"))
    /\ pc' = "send"
    /\ UNCHANGED <<env, limit, port, attempt, posts, sleeps, fetched, sends,
                   exitCode, unhandled, events>>

\* ------------------------------------------------------------ main, 198-207
\* The status-200 branch up to the composed message.  resp.json() and the
\* subject expression run outside every try block: an exception there ends
\* the process with a traceback and exit status 1.  The pretty-printed
\* payload (json.dumps) is kept as the document itself; the body text is
\* kept by its variable parts.
OnSuccess ==
    /\ pc = "returned"
    /\ fetched.status = 200
    /\ LET data == ParseJson(fetched.json)
           n == IF data.ok THEN ResultCount(data.v) ELSE data
       IN  IF n.ok
             THEN /\ \E t \in Instants :
                       LET ts == Strftime(t)
                           fname == "upwork_feed_" \o ts \o ".json"
                       IN  pending' =
                             make_email(SuccessSubject(n.v, ts),
                                        <<ts, fetched.status, fname, data.v>>,
                                        data.v, fname)
                  /\ branch' = "success"
                  /\ pc' = "send"
                  /\ UNCHANGED <<exitCode, unhandled, events>>
             ELSE /\ unhandled' = n.exc
                  /\ exitCode' = 1
                  /\ pc' = "exited"
                  /\ events' = Append(events, "exit")
                  /\ UNCHANGED <<pending, branch>>
    /\ logs' = Append(logs, Log("INFO", "main:198"))
    /\ UNCHANGED <<env, limit, port, attempt, posts, sleeps, fetched, sends>>

\* ------------------------------------------------------------ main, 214-221
IsAuthStatus(status) == status \in {401, 403}

OnAuthError ==
    /\ pc = "returned"
    /\ fetched.status # 200
    /\ IsAuthStatus(fetched.status)
    /\ pending' = ErrorMessage(AuthSubject(fetched.status),
                     "Upwork API returned " \o ToString(fetched.status)
                        \o ". Response:\n\n" \o fetched.text)
    /\ branch' = "auth"
    /\ logs' = logs \o <<Log("INFO", "main:198"), Log("ERROR", "main:215")>>
    /\ pc' = "send"
    /\ UNCHANGED <<env, limit, port, attempt, posts, sleeps, fetched, sends,
                   exitCode, unhandled, events>>

\* ------------------------------------------------------------ main, 227-234
OnOtherStatus ==
    /\ pc = "returned"
    /\ fetched.status # 200
    /\ ~IsAuthStatus(fetched.status)
    /\ pending' = ErrorMessage(OtherSubject(fetched.status),
                     "Status: " \o ToString(fetched.status) \o "\n\n"
                        \o fetched.text)
    /\ branch' = "other"
    /\ logs' = logs \o <<Log("INFO", "main:198"), Log("ERROR", "main:228")>>
    /\ pc' = "send"
    /\ UNCHANGED <<env, limit, port, attempt, posts, sleeps, fetched, sends,
                   exitCode, unhandled, events>>

\* ------------------------------------------------------------ send_email
\* Lines 163-172: one SMTP session, which completes or raises.
UsesStartTls(p) == p \in {587, 25}

SendEmail ==
    /\ pc = "send"
    /\ \E raised \in BOOLEAN :
         /\ sends' = Append(sends, [msg |-> pending, raised |-> raised,
                                    starttls |-> UsesStartTls(port)])
         /\ logs' = IF raised THEN logs
                    ELSE Append(logs, Log("INFO", "send_email:172"))
    /\ events' = Append(events, "send")
    /\ pc' = "sent"
    /\ UNCHANGED <<env, limit, port, attempt, posts, sleeps, fetched, branch,
                   pending, exitCode, unhandled>>

\* ------------------------------------------------------------ exit
\* Mutant of ExitCodeOf: the success branch has no sys.exit(1).
ExitCodeOfNoExitOnFailedSend(b, raised) ==
    CASE b = "exception" -> 1
      [] b = "success" -> 0
      [] b = "auth" -> 3
      [] b = "other" -> 4

\* Mutant of ExitCodeOf: a failed send exits 1 in every branch.
ExitCodeOfSendFailure(b, raised) ==
    IF raised THEN 1
    ELSE CASE b = "exception" -> 1
           [] b = "success" -> 0
           [] b = "auth" -> 3
           [] b = "other" -> 4

\* The except clause around send_email and what follows it in each branch:
\* lines 194-196, 210-213, 224-226, 237-239.
ExitCodeOf(b, raised) ==
    CASE b = "exception" -> 1
      [] b = "success" -> IF raised THEN 1 ELSE 0
      [] b = "auth" -> 3
      [] b = "other" -> 4

ExceptSite(b) ==
    CASE b = "exception" -> "main:195"
      [] b = "success" -> "main:211"
      [] b = "auth" -> "main:225"
      [] b = "other" -> "main:238"

\* Mutant of Exit: after a failed send the run calls fetch_upwork again
\* instead of leaving.
ExitRefetchAfterFailedSend ==
    /\ pc = "sent"
    /\ LET raised == sends[Len(sends)].raised
       IN  IF raised /\ Len(sends) = 1
             THEN /\ pc' = "fetch"
                  /\ attempt' = 1
                  /\ events' = Append(events, "fetch")
                  /\ logs' = Append(logs, Log("ERROR", ExceptSite(branch)))
                  /\ UNCHANGED exitCode
             ELSE /\ pc' = "exited"
                  /\ exitCode' = ExitCodeOf(branch, raised)
                  /\ events' = Append(events, "exit")
                  /\ UNCHANGED <<attempt, logs>>
    /\ UNCHANGED <<env, limit, port, posts, sleeps, fetched, branch,
                   pending, sends, unhandled>>

Exit ==
    /\ pc = "sent"
    /\ LET raised == sends[Len(sends)].raised
       IN  /\ exitCode' = ExitCodeOf(branch, raised)
           /\ logs' = IF raised
                        THEN Append(logs, Log("ERROR", ExceptSite(branch)))
                      ELSE IF branch = "success"
                        THEN Append(logs, Log("INFO", "main:213"))
                      ELSE logs
    /\ events' = Append(events, "exit")
    /\ pc' = "exited"
    /\ UNCHANGED <<env, limit, port, attempt, posts, sleeps, fetched, branch,
                   pending, sends, unhandled>>

Next ==
    \/ Validate
    \/ Attempt
    \/ MaxRetriesExceeded
    \/ OnFetchException
    \/ OnSuccess
    \/ OnAuthError
    \/ OnOtherStatus
    \/ SendEmail
    \/ Exit

Spec == Init /\ [][Next]_vars

\* ------------------------------------------------------------ vocabulary
Exited == pc = "exited"
FetchDone == fetched # NoValue
IsResponse(o) == o.kind = "resp"
IsServerError(o) == IsResponse(o) /\ o.status >= 500
IsTransportError(o) == o.kind = "exc"
FetchRaised == fetched.kind = "exc"
FetchReturned == fetched.kind = "resp"
AllSet == \A k \in RequiredKeys : env[k] # None /\ env[k] # Some("")

StartsWith(s, prefix) ==
    Len(s) >= Len(prefix) /\ SubSeq(s, 1, Len(prefix)) = prefix
Contains(s, sub) ==
    \E i \in 1..(Len(s) - Len(sub) + 1) : SubSeq(s, i, i + Len(sub) - 1) = sub

\* ------------------------------------------------------------ C1
\* C1: every run that passed validation (the success path and the three
\* failure paths) has handed exactly one message to send_email by the
\* time the process exits, and never more than one at any time.
C1_ExactlyOneEmailPerRun ==
    /\ Len(sends) <= 1
    /\ (Exited /\ AllSet) => Len(sends) = 1

\* ------------------------------------------------------------ C2
\* C2: once fetch_upwork has returned a response or raised, the run ends
\* with send_email invoked exactly once, whatever the outcome (a 200
\* response with an unparseable or oddly shaped body included).
C2_OneSendPerOutcome ==
    (Exited /\ FetchDone) => Len(sends) = 1

\* ------------------------------------------------------------ C3
\* C3: at exit the subject of the message sent and the exit code follow
\* the table: 200 -> success subject, exit 0 (1 when the send raised);
\* 401/403 -> AUTH ERROR {status}, exit 3; any other status ->
\* ERROR {status}, exit 4; fetch raised -> ERROR at {timestamp}, exit 1.
C3_BranchTable ==
    (Exited /\ FetchDone) =>
        /\ Len(sends) = 1
        /\ LET subject == sends[1].msg.subject
               raised == sends[1].raised
           IN  IF FetchRaised
                 THEN /\ StartsWith(subject, "[Upwork Fetcher] ERROR at ")
                      /\ exitCode = 1
               ELSE IF fetched.status = 200
                 THEN /\ StartsWith(subject, "[Upwork] mostRecentJobsFeed ")
                      /\ exitCode = IF raised THEN 1 ELSE 0
               ELSE IF fetched.status \in {401, 403}
                 THEN /\ subject = "[Upwork Fetcher] AUTH ERROR "
                                      \o ToString(fetched.status)
                      /\ exitCode = 3
               ELSE /\ subject = "[Upwork Fetcher] ERROR "
                                    \o ToString(fetched.status)
                    /\ exitCode = 4

\* ------------------------------------------------------------ C4
\* C4: a status >= 500 on attempt n is followed by a sleep of 2^n; for
\* n < MAX_RETRIES attempt n+1 is then made (the fetch cannot end before
\* it); after MAX_RETRIES retryable failures no POST can follow and the
\* fetch raises.  The number of POSTs never exceeds MAX_RETRIES.
C4_RetryOnServerError ==
    /\ Len(posts) <= MAX_RETRIES
    /\ \A n \in 1..Len(posts) :
         IsServerError(posts[n]) =>
            /\ Len(sleeps) >= n
            /\ sleeps[n] = 2 ^ n
            /\ n < MAX_RETRIES =>
                 IF Len(posts) = n
                   THEN pc = "fetch" /\ attempt = n + 1 /\ ENABLED Attempt
                   ELSE Len(posts) >= n + 1
            /\ n = MAX_RETRIES =>
                 /\ ~ENABLED Attempt
                 /\ pc = "fetch" => ENABLED MaxRetriesExceeded
                 /\ pc # "fetch" => fetched = RuntimeError

\* Three server errors in a row ended the fetch with the RuntimeError.
C4_Witness ==
    /\ Len(posts) = MAX_RETRIES
    /\ \A n \in 1..MAX_RETRIES : IsServerError(posts[n])
    /\ sleeps = <<2, 4, 8>>
    /\ fetched = RuntimeError

\* ------------------------------------------------------------ C5
\* C5: a response with status < 500 is the last POST of the run, no sleep
\* follows it, and it is what fetch_upwork returns; when the first
\* response is such a one the run makes exactly one POST.
C5_ReturnOnFirstNon5xx ==
    /\ \A n \in 1..Len(posts) :
         (IsResponse(posts[n]) /\ posts[n].status < 500) =>
            /\ n = Len(posts)
            /\ Len(sleeps) = n - 1
            /\ pc # "fetch"
            /\ fetched = posts[n]
    /\ FetchDone /\ FetchReturned =>
         /\ fetched = posts[Len(posts)]
         /\ fetched.status < 500
         /\ \A m \in 1..(Len(posts) - 1) :
              IsTransportError(posts[m]) \/ posts[m].status >= 500

\* A 429 on the first attempt ended the run after one POST and no sleep.
C5_Witness ==
    /\ Exited
    /\ Len(posts) = 1
    /\ IsResponse(posts[1]) /\ posts[1].status = 429
    /\ sleeps = <<>>
    /\ fetched = posts[1]

\* ------------------------------------------------------------ C6
\* C6: when a required value is unset or empty no POST is made and no
\* SMTP session is opened, and the process exits with code 2; when all
\* are present the exit code is never 2.
C6_MissingConfigExits2 ==
    IF \E k \in RequiredKeys : env[k] = None \/ env[k] = Some("")
      THEN /\ posts = <<>>
           /\ sends = <<>>
           /\ "post" \notin {events[i] : i \in 1..Len(events)}
           /\ "send" \notin {events[i] : i \in 1..Len(events)}
           /\ pc \in {"main", "exited"}
           /\ Exited => exitCode = 2
      ELSE exitCode # 2

\* A run with an empty (not unset) value has exited with code 2.
C6_Witness ==
    /\ Exited
    /\ exitCode = 2
    /\ \E k \in RequiredKeys : env[k] = Some("")
    /\ \A k \in RequiredKeys : env[k] # None

\* ------------------------------------------------------------ C7
\* C7: a run in which every POST answered 500 made exactly MAX_RETRIES
\* POSTs, called send_email exactly once with the subject
\* "[Upwork Fetcher] ERROR at ..." (not "[Upwork Fetcher] ERROR 500"),
\* delivered at most that one message, and exited with code 1.
C7_AllAttempts500 ==
    (/\ Exited
     /\ posts # <<>>
     /\ \A n \in 1..Len(posts) : IsResponse(posts[n]) /\ posts[n].status = 500)
    =>
        /\ Len(posts) = 3
        /\ Len(sends) = 1
        /\ StartsWith(sends[1].msg.subject, "[Upwork Fetcher] ERROR at ")
        /\ sends[1].msg.subject # "[Upwork Fetcher] ERROR 500"
        /\ sends[1].msg.attachment = NoAttachment
        /\ exitCode = 1

\* Three 500 responses, the error mail delivered, exit code 1.
C7_Witness ==
    /\ Exited
    /\ Len(posts) = 3
    /\ \A n \in 1..3 : IsResponse(posts[n]) /\ posts[n].status = 500
    /\ Len(sends) = 1
    /\ ~sends[1].raised
    /\ exitCode = 1

\* ------------------------------------------------------------ C8
\* C8: when send_email raises, the run still ends through sys.exit (no
\* unhandled exception) with the code of its branch: 1 after a fetch
\* exception, 3 after 401/403, 4 after any other non-200 status, and 1
\* after a 200.
C8_SendFailureKeepsExitCode ==
    (Exited /\ sends # <<>> /\ sends[Len(sends)].raised) =>
        /\ unhandled = "none"
        /\ Len(sends) = 1
        /\ exitCode = IF FetchRaised THEN 1
                      ELSE IF fetched.status = 200 THEN 1
                      ELSE IF fetched.status \in {401, 403} THEN 3
                      ELSE 4

\* A failed send after a 403 ended in exit code 3.
C8_Witness ==
    /\ Exited
    /\ sends # <<>> /\ sends[1].raised
    /\ FetchReturned /\ fetched.status = 403
    /\ exitCode = 3

\* ------------------------------------------------------------ C9
\* The value under data.mostRecentJobsFeed.results, when every level on
\* the way is an object holding the next key.
PathPresent(doc) ==
    /\ doc.t = "obj" /\ HasKey(doc, "data")
    /\ Lookup(doc, "data").t = "obj"
    /\ HasKey(Lookup(doc, "data"), "mostRecentJobsFeed")
    /\ Lookup(Lookup(doc, "data"), "mostRecentJobsFeed").t = "obj"
    /\ HasKey(Lookup(Lookup(doc, "data"), "mostRecentJobsFeed"), "results")
ResultsOf(doc) ==
    Lookup(Lookup(Lookup(doc, "data"), "mostRecentJobsFeed"), "results")

\* A status-200 response with a JSON body has been classified.
Classified200 ==
    /\ pc \in {"send", "sent", "exited"}
    /\ FetchReturned /\ fetched.status = 200
    /\ fetched.json # NotJson

\* C9: for a 200 response whose JSON body lacks the results path at any
\* level (a key is missing, or a value on the way is null or no object)
\* no exception is raised, the success mail is composed with a count of
\* 0 in its subject, and by exit its send has been attempted.
C9_MissingPathCountsZero ==
    (Classified200 /\ ~PathPresent(fetched.json)) =>
        /\ unhandled = "none"
        /\ pending # NoValue
        /\ Contains(pending.subject, EmDash \o " 0 results " \o EmDash)
        /\ Exited => Len(sends) = 1

\* ------------------------------------------------------------ C10
RECURSIVE Decimal(_)
Decimal(n) ==
    LET d == CASE n % 10 = 0 -> "0" [] n % 10 = 1 -> "1" [] n % 10 = 2 -> "2"
               [] n % 10 = 3 -> "3" [] n % 10 = 4 -> "4" [] n % 10 = 5 -> "5"
               [] n % 10 = 6 -> "6" [] n % 10 = 7 -> "7" [] n % 10 = 8 -> "8"
               [] n % 10 = 9 -> "9"
    IN  IF n < 10 THEN d ELSE Decimal(n \div 10) \o d

\* C10: for a 200 response whose body holds a list of length k under
\* data.mostRecentJobsFeed.results, the success mail's subject contains
\* "<em dash> k results <em dash>", whatever LIMIT is.
C10_SubjectCountsResults ==
    (/\ Classified200
     /\ PathPresent(fetched.json)
     /\ ResultsOf(fetched.json).t = "list")
    =>
        /\ unhandled = "none"
        /\ pending # NoValue
        /\ Contains(pending.subject,
                    EmDash \o " " \o Decimal(ResultsOf(fetched.json).len)
                        \o " results " \o EmDash)
        /\ \A i \in 1..Len(sends) : sends[i].msg.subject = pending.subject

\* A body with more results than LIMIT was mailed.
C10_Witness ==
    /\ Classified200
    /\ PathPresent(fetched.json)
    /\ ResultsOf(fetched.json).t = "list"
    /\ ResultsOf(fetched.json).len > limit
    /\ Len(sends) = 1

\* ------------------------------------------------------------ C11
IsRetryableFailure(o) == IsTransportError(o) \/ IsServerError(o)

\* C11: a transport failure and a status >= 500 are handled alike: the
\* n-th POST, whichever of the two it ended in, is attempt n of one
\* counter and is followed by the sleep of RETRY_BACKOFF^n; MAX_RETRIES
\* such failures in any mix end in the RuntimeError; a response below 500
\* after any mix of them is returned.
C11_TransportLikeServerError ==
    /\ \A n \in 1..Len(posts) :
         IsRetryableFailure(posts[n]) =>
            /\ n <= MAX_RETRIES
            /\ Len(sleeps) >= n
            /\ sleeps[n] = RETRY_BACKOFF ^ n
            /\ IF Len(posts) = n
                 THEN pc = "fetch" => attempt = n + 1
                 ELSE TRUE
            /\ (Len(posts) = n /\ pc # "fetch") =>
                 (n = MAX_RETRIES /\ fetched = RuntimeError)
    /\ \A n \in 1..Len(posts) :
         ~IsRetryableFailure(posts[n]) =>
            /\ \A m \in 1..(n - 1) : IsRetryableFailure(posts[m])
            /\ fetched = posts[n]

\* Both kinds of failure in one run, ending in the RuntimeError.
C11_Witness ==
    /\ Len(posts) = MAX_RETRIES
    /\ IsTransportError(posts[1])
    /\ IsServerError(posts[2])
    /\ IsTransportError(posts[3])
    /\ sleeps = <<2, 4, 8>>
    /\ fetched = RuntimeError

\* ------------------------------------------------------------ C12
RECURSIVE Sum(_)
Sum(q) == IF q = <<>> THEN 0 ELSE q[1] + Sum(Tail(q))

\* C12: the sleeps of a run are a prefix of <<2, 4, 8>>, one per retryable
\* failure and none otherwise, and add up to at most 14.
C12_BackoffDelays ==
    /\ Len(sleeps) <= 3
    /\ \A i \in 1..Len(sleeps) : sleeps[i] = <<2, 4, 8>>[i]
    /\ Len(sleeps) =
         Cardinality({n \in 1..Len(posts) : IsRetryableFailure(posts[n])})
    /\ Sum(sleeps) <= 14

\* A run that slept 2, 4 and 8.
C12_Witness ==
    /\ Exited
    /\ sleeps = <<2, 4, 8>>
    /\ Sum(sleeps) = 14

\* ------------------------------------------------------------ C13
FetcherLogs ==
    SelectSeq(logs, LAMBDA r : r.site \in {"fetch_upwork:139",
                                           "fetch_upwork:144"})

\* C13: fetch_upwork logs one line per retryable failure, each at
\* warning level, and nothing for a response it returns.
C13_RetryableFailuresWarn ==
    /\ Len(FetcherLogs) =
         Cardinality({n \in 1..Len(posts) : IsRetryableFailure(posts[n])})
    /\ \A i \in 1..Len(FetcherLogs) : FetcherLogs[i].level = "WARNING"

\* ------------------------------------------------------------ C14
Count(q, x) == Cardinality({i \in 1..Len(q) : q[i] = x})

\* C14: a validated run calls fetch_upwork exactly once; nothing of the
\* fetch (call, POST, sleep) happens after a send attempt; the send
\* attempt comes before the exit, which is the last event.
C14_FetchOnceThenSendThenExit ==
    /\ Count(events, "fetch") <= 1
    /\ (AllSet /\ pc # "main") => Count(events, "fetch") = 1
    /\ ~AllSet => Count(events, "fetch") = 0
    /\ Count(events, "send") <= 1
    /\ \A i \in 1..Len(events) : \A j \in 1..Len(events) :
         /\ (events[i] \in {"post", "sleep"} /\ events[j] = "fetch") => j < i
         /\ (events[i] \in {"post", "sleep", "fetch"} /\ events[j] = "send")
               => i < j
         /\ (events[j] = "exit" /\ i # j) => i < j
    /\ Count(events, "post") = Len(posts)
    /\ Count(events, "send") = Len(sends)

\* A run with retries, a send and the exit, in that order.
C14_Witness ==
    /\ Exited
    /\ events = <<"fetch", "post", "sleep", "post", "send", "exit">>

\* ------------------------------------------------------------ C15
\* C15: every run that has ended did so with an exit code in 0..4 and
\* through sys.exit or the return of main, not an unhandled exception;
\* the exit happens once.
C15_ExitsWithinTable ==
    /\ Count(events, "exit") <= 1
    /\ Exited =>
         /\ exitCode \in {0, 1, 2, 3, 4}
         /\ unhandled = "none"
         /\ Count(events, "exit") = 1

\* ------------------------------------------------------------ C16
\* C16: exit code 0 occurs only after validation passed, fetch_upwork
\* returned status 200 and the one success mail was sent without an
\* exception; statuses 201 and 204 end in exit code 4.
C16_ExitZeroOnlyOnDeliveredSuccess ==
    /\ exitCode = 0 =>
         /\ AllSet
         /\ FetchReturned /\ fetched.status = 200
         /\ Len(sends) = 1
         /\ ~sends[1].raised
         /\ StartsWith(sends[1].msg.subject, "[Upwork] mostRecentJobsFeed ")
    /\ (Exited /\ FetchDone /\ FetchReturned /\ fetched.status \in {201, 204})
         => exitCode = 4

\* A delivered success mail and exit code 0.
C16_Witness ==
    /\ Exited
    /\ exitCode = 0
    /\ fetched.status = 200
    /\ Len(sends) = 1 /\ ~sends[1].raised
====
